---- MODULE Spec2Model ----
(***************************************************************************)
(* Model of the task-classifier pipeline of geoai.js:                      *)
(*   task-classifier/data/prepare_data.py   (Data Preparer)                *)
(*   task-classifier/model/train.py         (Trainer)                      *)
(*   task-classifier/model/predict.py       (Predictor)                    *)
(* Each script is a run-to-completion process; its position is a pc.       *)
(***************************************************************************)
EXTENDS Integers, Sequences, FiniteSets, TLC

VARIABLES
    \* ---- Data Preparer (prepare_data.py) ----
    task_labels,     \* the configured label list (task_labels.json)
    raw_data,        \* the JSON array at raw_data_path
    input_exists,    \* os.path.exists(raw_data_path)
    config,          \* [seed, train_split, epochs]
    run,             \* which invocation of the script (1 or 2), each with its own output_dir
    pc,              \* position of the running prepare_data call
    processed_data,  \* the local list processed_data
    split,           \* [train_data, test_data] after line 84
    rng,             \* state of the process-wide generator of the random module
    out_dir,         \* run -> [created, train, test]: the files of each output_dir
    \* ---- Trainer (train.py) ----
    data_file,       \* the JSON array at args.data_path
    tpc,             \* position of the running main() of train.py
    unique_labels,   \* list(set(labels))
    label_to_id,     \* dict, as the insertion-ordered list of <<label, id>>
    label_ids,       \* the numeric ids the dataset is trained on
    num_classes,     \* num_labels of the model's output layer
    epoch,           \* epochs completed
    model_state,     \* the weights, named by the number of train() passes that made them
    best_f1,
    f1_log,          \* the F1/val scalars handed to the SummaryWriter, one per epoch
    bundles,         \* [best_model, final_model]: the directories save_model writes
    saves,           \* the save_model calls made, in order: [dir, at], at = epochs run so far
    \* ---- Predictor (predict.py) ----
    ppc,             \* position of predict.py's main()
    model_path,      \* which bundle the TaskClassifier was built from
    id_to_label,     \* self.id_to_label
    out_classes,     \* number of logits the loaded model produces
    logits,          \* outputs.logits[0] of the forward pass
    prediction       \* the dictionary predict() returns

prepVars  == <<task_labels, raw_data, input_exists, config, run, pc, processed_data,
               split, rng, out_dir>>
trainVars == <<data_file, tpc, unique_labels, label_to_id, label_ids, num_classes,
               epoch, model_state, best_f1, f1_log, bundles, saves>>
predVars  == <<ppc, model_path, id_to_label, out_classes, logits, prediction>>
vars      == <<prepVars, trainVars, predVars>>

-----------------------------------------------------------------------------
(* Bounds of the model *)
MaxRecords == 3     \* longest input record list
MaxEpochs  == 2     \* largest config["training"]["epochs"]
MaxF1      == 2     \* validation F1 is drawn from the grid 0/MaxF1 .. MaxF1/MaxF1
MaxLogit   == 2     \* logits are drawn from -MaxLogit .. MaxLogit

-----------------------------------------------------------------------------
(* Python / JSON values: an int and a str are different values even when    *)
(* they print alike.                                                        *)
IntV(n) == [kind |-> "int", val |-> n, str |-> ""]
StrV(s) == [kind |-> "str", val |-> 0, str |-> s]

Digit(d) == CASE d = 0 -> "0" [] d = 1 -> "1" [] d = 2 -> "2" [] d = 3 -> "3"
              [] d = 4 -> "4" [] d = 5 -> "5" [] d = 6 -> "6" [] d = 7 -> "7"
              [] d = 8 -> "8" [] d = 9 -> "9"

RECURSIVE PyStr(_)
\* str(n) for a non-negative int: its decimal digits
PyStr(n) == IF n < 10 THEN Digit(n) ELSE PyStr(n \div 10) \o Digit(n % 10)

\* int(s) for a string of decimal digits (the keys json writes for ints)
PyInt(s) == CHOOSE n \in 0..99 : PyStr(n) = s

Range(f) == {f[i] : i \in DOMAIN f}

SeqsUpTo(S, n) == UNION {[1..k -> S] : k \in 0..n}

Absent == [written |-> FALSE, content |-> <<>>]
File(c) == [written |-> TRUE, content |-> c]

-----------------------------------------------------------------------------
(* Data Preparer *)

IsSpace(c) == c \in {" ", "\t", "\n"}

Lower(c) == CASE c = "H" -> "h" [] c = "G" -> "g" [] OTHER -> c

RECURSIVE LStrip(_)
LStrip(s) == IF s # <<>> /\ IsSpace(Head(s)) THEN LStrip(Tail(s)) ELSE s

RECURSIVE RStrip(_)
RStrip(s) == IF s # <<>> /\ IsSpace(s[Len(s)]) THEN RStrip(SubSeq(s, 1, Len(s) - 1)) ELSE s

RECURSIVE Collapse(_)
\* re.sub(r'\s+', ' ', s): every maximal run of whitespace becomes one space
Collapse(s) ==
    IF s = <<>> THEN <<>>
    ELSE IF IsSpace(Head(s)) THEN <<" ">> \o Collapse(LStrip(s))
    ELSE <<Head(s)>> \o Collapse(Tail(s))

\* clean_text: strip, collapse whitespace, lowercase
clean_text(text) == LET t == Collapse(RStrip(LStrip(text)))
                    IN  [i \in 1..Len(t) |-> Lower(t[i])]

\* list.index: position of the first occurrence, 0-based
Index(list, x) == (CHOOSE i \in 1..Len(list) :
                       list[i] = x /\ \A j \in 1..(i - 1) : list[j] # x) - 1

\* item.get("task", "other")
TaskType(item) == IF item.has_task THEN item.task ELSE "other"

\* LabelLookup with the fallback index taken past the end of the list
LookupWrongFallback(task_type, labels) ==
    IF task_type \in Range(labels)
    THEN [ok |-> TRUE, idx |-> Index(labels, task_type)]
    ELSE IF "other" \notin Range(labels) THEN [ok |-> FALSE, idx |-> 0]
    ELSE [ok |-> TRUE, idx |-> Len(labels)]

\* LabelLookup that carries on with index 0 where the code returns
LookupNoAbort(task_type, labels) ==
    IF task_type \in Range(labels)
    THEN [ok |-> TRUE, idx |-> Index(labels, task_type)]
    ELSE IF "other" \notin Range(labels) THEN [ok |-> TRUE, idx |-> 0]
    ELSE [ok |-> TRUE, idx |-> Index(labels, "other")]

\* lines 61-68: the label index of a task, or ok = FALSE where the code returns
LabelLookup(task_type, labels) ==
    IF task_type \in Range(labels)
    THEN [ok |-> TRUE, idx |-> Index(labels, task_type)]
    ELSE IF "other" \notin Range(labels) THEN [ok |-> FALSE, idx |-> 0]
    ELSE [ok |-> TRUE, idx |-> Index(labels, "other")]

\* The generator of the random module, as a Lehmer generator on 1..30
NextRng(r) == (3 * r) % 31
\* _randbelow(n)
RandBelow(r, n) == r % n

\* Seed with the random.seed call left out: the generator keeps its state
SeedIgnored(r, seed) == r

\* random.seed(seed): the state depends on the seed alone
Seed(r, seed) == (seed % 30) + 1

Swap(x, i, j) == [x EXCEPT ![i] = x[j], ![j] = x[i]]

RECURSIVE ShuffleFrom(_, _, _)
\* random.shuffle: for i in reversed(range(1, len(x))): j = randbelow(i + 1); swap
ShuffleFrom(x, r, i) ==
    IF i < 2 THEN [list |-> x, rng |-> r]
    ELSE LET r2 == NextRng(r)
             j  == RandBelow(r2, i) + 1
         IN  ShuffleFrom(Swap(x, i, j), r2, i - 1)

Shuffle(x, r) == ShuffleFrom(x, r, Len(x))

\* int(data_len * train_split), train_split = num/den in [0,1]; on the lengths
\* and ratios used here the float product truncates to the exact floor
TrainSize(data_len, ts) == (data_len * ts.num) \div ts.den

\* TestSlice starting one record late
TestSliceSkipsOne(list, train_size) == SubSeq(list, train_size + 2, Len(list))

\* processed_data[:train_size] and processed_data[train_size:]
TrainSlice(list, train_size) == SubSeq(list, 1, train_size)
TestSlice(list, train_size) == SubSeq(list, train_size + 1, Len(list))

\* AfterWriteTrain with the logging statement placed before the second write
LogBeforeSecondWrite == "log"

\* lines 87-91: the with-block writing test.json follows the one writing train.json
AfterWriteTrain == "write_test"

\* Input domains of the Data Preparer
LabelLists == { <<"translate", "other">>,
                <<"translate", "detect", "other">>,
                <<"other", "detect">>,
                <<"translate", "detect">> }

RawRecords == { [has_task |-> TRUE,  task |-> "translate", query |-> <<" ", "H", "i">>],
                [has_task |-> TRUE,  task |-> "detect",    query |-> <<"G", "o">>],
                [has_task |-> TRUE,  task |-> "segment",   query |-> <<"H", "\t", " ", "i", "\n">>],
                [has_task |-> FALSE, task |-> "",          query |-> <<"g", "o">>] }

Seeds == {42, 7}

\* train_split values, as exact fractions: 0, 0.5, 0.8, 1
Splits == { [num |-> 0, den |-> 1], [num |-> 1, den |-> 2],
            [num |-> 4, den |-> 5], [num |-> 1, den |-> 1] }

\* States the generator can be in when a process starts (seeded from the OS)
EntropyStates == {1, 17}

Runs == {1, 2}

NoSplit == [train_data |-> <<>>, test_data |-> <<>>]

EmptyDir == [created |-> FALSE, train |-> Absent, test |-> Absent]

PrepOff ==
    /\ task_labels = <<>>
    /\ raw_data = <<>>
    /\ input_exists = FALSE
    /\ run = 1
    /\ pc = "off"
    /\ processed_data = <<>>
    /\ split = NoSplit
    /\ rng = 1
    /\ out_dir = [r \in Runs |-> EmptyDir]

PrepInit ==
    /\ task_labels \in LabelLists
    /\ raw_data \in SeqsUpTo(RawRecords, MaxRecords)
    /\ input_exists \in BOOLEAN
    /\ config \in [seed : Seeds, train_split : Splits, epochs : {1}]
    /\ run = 1
    /\ pc = "start"
    /\ processed_data = <<>>
    /\ split = NoSplit
    /\ rng \in EntropyStates
    /\ out_dir = [r \in Runs |-> EmptyDir]

\* lines 41-56: makedirs, the existence check, json.load, processed_data = []
Start ==
    /\ pc = "start"
    /\ out_dir' = [out_dir EXCEPT ![run].created = TRUE]
    /\ pc' = IF input_exists THEN "loop" ELSE "returned"
    /\ processed_data' = <<>>
    /\ UNCHANGED <<task_labels, raw_data, input_exists, config, run, split, rng>>
    /\ UNCHANGED <<trainVars, predVars>>

\* lines 57-73: one iteration of the for loop
ProcessItem ==
    /\ pc = "loop"
    /\ Len(processed_data) < Len(raw_data)
    /\ LET item == raw_data[Len(processed_data) + 1]
           look == LabelLookup(TaskType(item), task_labels)
       IN  IF look.ok
           THEN /\ processed_data' = Append(processed_data,
                       [text |-> clean_text(item.query), label |-> look.idx])
                /\ pc' = "loop"
           ELSE /\ pc' = "returned"
                /\ UNCHANGED processed_data
    /\ UNCHANGED <<task_labels, raw_data, input_exists, config, run, split, rng, out_dir>>
    /\ UNCHANGED <<trainVars, predVars>>

\* lines 75-84: seed, shuffle in place, split
ShuffleSplit ==
    /\ pc = "loop"
    /\ Len(processed_data) = Len(raw_data)
    /\ LET sh == Shuffle(processed_data, Seed(rng, config.seed))
           train_size == TrainSize(Len(processed_data), config.train_split)
       IN  /\ processed_data' = sh.list
           /\ rng' = sh.rng
           /\ split' = [train_data |-> TrainSlice(sh.list, train_size),
                        test_data  |-> TestSlice(sh.list, train_size)]
    /\ pc' = "write_train"
    /\ UNCHANGED <<task_labels, raw_data, input_exists, config, run, out_dir>>
    /\ UNCHANGED <<trainVars, predVars>>

\* lines 87-88
WriteTrain ==
    /\ pc = "write_train"
    /\ out_dir' = [out_dir EXCEPT ![run].train = File(split.train_data)]
    /\ pc' = AfterWriteTrain
    /\ UNCHANGED <<task_labels, raw_data, input_exists, config, run, processed_data, split, rng>>
    /\ UNCHANGED <<trainVars, predVars>>

\* lines 90-91
WriteTest ==
    /\ pc = "write_test"
    /\ out_dir' = [out_dir EXCEPT ![run].test = File(split.test_data)]
    /\ pc' = "log"
    /\ UNCHANGED <<task_labels, raw_data, input_exists, config, run, processed_data, split, rng>>
    /\ UNCHANGED <<trainVars, predVars>>

\* line 93: the f-string reads val_data, bound nowhere: NameError
LogFinal ==
    /\ pc = "log"
    /\ pc' = "raised"
    /\ UNCHANGED <<task_labels, raw_data, input_exists, config, run, processed_data, split,
                   rng, out_dir>>
    /\ UNCHANGED <<trainVars, predVars>>

\* The script is started again on the same inputs, in a new process, with the
\* second output directory (lines 95-108)
RunAgain ==
    /\ pc \in {"returned", "raised"}
    /\ run = 1
    /\ run' = 2
    /\ pc' = "start"
    /\ rng' \in EntropyStates
    /\ processed_data' = <<>>
    /\ split' = NoSplit
    /\ UNCHANGED <<task_labels, raw_data, input_exists, config, out_dir>>
    /\ UNCHANGED <<trainVars, predVars>>

PrepNext == Start \/ ProcessItem \/ ShuffleSplit \/ WriteTrain \/ WriteTest \/ LogFinal \/ RunAgain

-----------------------------------------------------------------------------
(* Trainer *)

Perms(S) == {f \in [1..Cardinality(S) -> S] : Range(f) = S}

\* list(set(labels)): the iteration order of a set.  Small ints hash to
\* themselves and come out ascending; with str members the order follows the
\* per-process string hash and can be any.
SetOrders(S) ==
    IF \A x \in S : x.kind = "int"
    THEN {f \in Perms(S) : \A i, j \in DOMAIN f : i < j => f[i].val < f[j].val}
    ELSE Perms(S)

\* line 86: {label: i for i, label in enumerate(unique_labels)}
LabelToId(order) == [i \in 1..Len(order) |-> <<order[i], IntV(i - 1)>>]

\* dict lookup d[k] on an insertion-ordered list of <<key, value>> with distinct keys
Get(d, k) == d[CHOOSE i \in 1..Len(d) : d[i][1] = k][2]

\* NumClasses counting one class more than the labels seen
CountFromConfig(order) == Len(order) + 1

\* line 131: num_classes = len(unique_labels)
NumClasses(order) == Len(order)

\* line 99: {str(v): k for k, v in label_to_id.items()}
IdToLabel(l2i) == [i \in 1..Len(l2i) |-> <<StrV(PyStr(l2i[i][2].val)), l2i[i][1]>>]

\* json.dump of a dict: an int key is written as its decimal string, a str key as is
JsonKey(k) == IF k.kind = "int" THEN PyStr(k.val) ELSE k.str

JsonDumpDict(d) == [i \in 1..Len(d) |-> <<JsonKey(d[i][1]), d[i][2]>>]

\* json.load of an object: string keys, the last of equal keys wins
JsonLoadDict(obj) ==
    [k \in {obj[i][1] : i \in 1..Len(obj)} |->
        obj[CHOOSE i \in 1..Len(obj) :
                obj[i][1] = k /\ \A j \in (i + 1)..Len(obj) : obj[j][1] # k][2]]

NoBundle == [exists |-> FALSE, weights |-> 0, num_labels |-> 0,
             label_mapping |-> [label_to_id |-> <<>>, id_to_label |-> <<>>]]

\* lines 91-101: the directory save_model writes
SaveModel(weights, num_labels, l2i) ==
    [exists |-> TRUE, weights |-> weights, num_labels |-> num_labels,
     label_mapping |-> [label_to_id |-> JsonDumpDict(l2i),
                        id_to_label |-> JsonDumpDict(IdToLabel(l2i))]]

\* Improves with >= for >
ImprovesOrTies(f1, best) == f1 >= best

\* line 189
Improves(f1, best) == f1 > best

\* Input domain of the Trainer: records {text, label} with int or str labels
TrainLabels == {IntV(0), IntV(2), StrV("other"), StrV("2")}

TrainItems == {[text |-> <<"h", "i">>, label |-> v] : v \in TrainLabels}

TrainOff ==
    /\ data_file = Absent
    /\ tpc = "off"
    /\ unique_labels = <<>>
    /\ label_to_id = <<>>
    /\ label_ids = <<>>
    /\ num_classes = 0
    /\ epoch = 0
    /\ model_state = 0
    /\ best_f1 = 0
    /\ f1_log = <<>>
    /\ bundles = [best_model |-> NoBundle, final_model |-> NoBundle]
    /\ saves = <<>>

\* lines 128-139: load_data (75-89), num_classes, the model with num_labels outputs
LoadData ==
    /\ tpc = "start"
    /\ data_file.written
    /\ LET data   == data_file.content
           labels == [i \in 1..Len(data) |-> data[i].label]
       IN  \E order \in SetOrders(Range(labels)) :
              /\ unique_labels' = order
              /\ label_to_id' = LabelToId(order)
              /\ label_ids' = [i \in 1..Len(labels) |-> Get(LabelToId(order), labels[i]).val]
              /\ num_classes' = NumClasses(order)
    /\ tpc' = "epochs"
    /\ UNCHANGED <<data_file, epoch, model_state, best_f1, f1_log, bundles, saves>>
    /\ UNCHANGED <<prepVars, predVars>>

\* lines 174-191: one pass of the epoch loop: train, evaluate, save when F1 improves
Epoch ==
    /\ tpc = "epochs"
    /\ epoch < config.epochs
    /\ \E f1 \in 0..MaxF1 :
          /\ model_state' = model_state + 1
          /\ f1_log' = Append(f1_log, f1)
          /\ IF Improves(f1, best_f1)
             THEN /\ best_f1' = f1
                  /\ bundles' = [bundles EXCEPT !.best_model =
                                    SaveModel(model_state', num_classes, label_to_id)]
                  /\ saves' = Append(saves, [dir |-> "best_model", at |-> epoch + 1])
             ELSE UNCHANGED <<best_f1, bundles, saves>>
    /\ epoch' = epoch + 1
    /\ UNCHANGED <<data_file, tpc, unique_labels, label_to_id, label_ids, num_classes>>
    /\ UNCHANGED <<prepVars, predVars>>

\* lines 193-195: after the loop
SaveFinal ==
    /\ tpc = "epochs"
    /\ epoch >= config.epochs
    /\ bundles' = [bundles EXCEPT !.final_model =
                      SaveModel(model_state, num_classes, label_to_id)]
    /\ saves' = Append(saves, [dir |-> "final_model", at |-> epoch])
    /\ tpc' = "done"
    /\ UNCHANGED <<data_file, unique_labels, label_to_id, label_ids, num_classes, epoch,
                   model_state, best_f1, f1_log>>
    /\ UNCHANGED <<prepVars, predVars>>

TrainNext == LoadData \/ Epoch \/ SaveFinal

-----------------------------------------------------------------------------
(* Predictor *)

RECURSIVE Pow2(_)
Pow2(n) == IF n = 0 THEN 1 ELSE 2 * Pow2(n - 1)

RECURSIVE SumTo(_, _)
SumTo(w, n) == IF n = 0 THEN 0 ELSE w[n] + SumTo(w, n - 1)

\* softmax(logits)[i] = w[i] / sum(w), w[i] = b^logits[i]; the base is 2, the
\* weights are scaled by b^MaxLogit to stay integers (softmax is unchanged by a
\* common factor), and the probabilities are exact fractions num[i] / den
Softmax(lg) ==
    LET w == [i \in 1..Len(lg) |-> Pow2(lg[i] + MaxLogit)]
    IN  [num |-> w, den |-> SumTo(w, Len(lg))]

\* torch.argmax: the first index holding the maximum, 0-based
ArgMax(p) == (CHOOSE i \in 1..Len(p) :
                 /\ \A j \in 1..Len(p) : p[j] <= p[i]
                 /\ \A j \in 1..(i - 1) : p[j] < p[i]) - 1

\* Confidence read at class 0 whatever class was predicted
ConfidenceOfFirst(probs, c) == [num |-> probs.num[1], den |-> probs.den]

\* line 60: probabilities[predicted_class]
Confidence(probs, c) == [num |-> probs.num[c + 1], den |-> probs.den]

NoPrediction == [task |-> StrV(""), confidence |-> [num |-> 0, den |-> 1]]

PredOff ==
    /\ ppc = "off"
    /\ model_path = ""
    /\ id_to_label = <<>>
    /\ out_classes = 0
    /\ logits = <<>>
    /\ prediction = NoPrediction

\* lines 22-34: TaskClassifier(model_path); a missing directory raises
LoadBundle ==
    /\ ppc = "start"
    /\ \E path \in {"best_model", "final_model"} :
          /\ model_path' = path
          /\ IF bundles[path].exists
             THEN LET m == JsonLoadDict(bundles[path].label_mapping.id_to_label)
                  IN  /\ id_to_label' = [c \in {PyInt(k) : k \in DOMAIN m} |->
                                            m[CHOOSE k \in DOMAIN m : PyInt(k) = c]]
                      /\ out_classes' = bundles[path].num_labels
                      /\ ppc' = "loaded"
             ELSE /\ ppc' = "raised"
                  /\ UNCHANGED <<id_to_label, out_classes>>
    /\ UNCHANGED <<logits, prediction>>
    /\ UNCHANGED <<prepVars, trainVars>>

\* lines 46-65: one forward pass, softmax, argmax, the label lookup
Predict ==
    /\ ppc = "loaded"
    /\ out_classes > 0
    /\ \E lg \in [1..out_classes -> (0 - MaxLogit)..MaxLogit] :
          LET probabilities   == Softmax(lg)
              predicted_class == ArgMax(probabilities.num)
          IN  /\ logits' = lg
              /\ IF predicted_class \in DOMAIN id_to_label
                 THEN /\ prediction' = [task |-> id_to_label[predicted_class],
                                        confidence |-> Confidence(probabilities, predicted_class)]
                      /\ ppc' = "done"
                 ELSE /\ ppc' = "raised"
                      /\ UNCHANGED prediction
    /\ UNCHANGED <<model_path, id_to_label, out_classes>>
    /\ UNCHANGED <<prepVars, trainVars>>

PredNext == LoadBundle \/ Predict

-----------------------------------------------------------------------------
(* Specifications *)

\* The Data Preparer alone, run twice on the same inputs
InitPrepare == PrepInit /\ TrainOff /\ PredOff

SpecPrepare == InitPrepare /\ [][PrepNext]_vars

\* The Trainer alone, on a data file whose 80% training split is not empty (line 142)
InitTrain ==
    /\ PrepOff
    /\ config \in [seed : {42}, train_split : {[num |-> 4, den |-> 5]}, epochs : 0..MaxEpochs]
    /\ data_file \in {File(d) : d \in {x \in SeqsUpTo(TrainItems, MaxRecords) : Len(x) >= 2}}
    /\ tpc = "start"
    /\ unique_labels = <<>>
    /\ label_to_id = <<>>
    /\ label_ids = <<>>
    /\ num_classes = 0
    /\ epoch = 0
    /\ model_state = 0
    /\ best_f1 = 0
    /\ f1_log = <<>>
    /\ bundles = [best_model |-> NoBundle, final_model |-> NoBundle]
    /\ saves = <<>>
    /\ PredOff

SpecTrain == InitTrain /\ [][TrainNext]_vars

\* The Predictor alone, on the bundles a finished Trainer run leaves behind
InitPredict ==
    /\ PrepOff
    /\ config = [seed |-> 42, train_split |-> [num |-> 4, den |-> 5], epochs |-> 1]
    /\ data_file = Absent
    /\ tpc = "done"
    /\ \E S \in {T \in SUBSET TrainLabels : T # {} /\ Cardinality(T) <= MaxRecords} :
       \E order \in SetOrders(S) :
       \E improved \in BOOLEAN :
          /\ unique_labels = order
          /\ label_to_id = LabelToId(order)
          /\ num_classes = NumClasses(order)
          /\ best_f1 = IF improved THEN 1 ELSE 0
          /\ f1_log = IF improved THEN <<1>> ELSE <<0>>
          /\ saves = IF improved
                     THEN <<[dir |-> "best_model", at |-> 1], [dir |-> "final_model", at |-> 1]>>
                     ELSE <<[dir |-> "final_model", at |-> 1]>>
          /\ bundles = [best_model |-> IF improved
                                       THEN SaveModel(1, NumClasses(order), LabelToId(order))
                                       ELSE NoBundle,
                        final_model |-> SaveModel(1, NumClasses(order), LabelToId(order))]
    /\ label_ids = <<>>
    /\ epoch = 1
    /\ model_state = 1
    /\ ppc = "start"
    /\ model_path = ""
    /\ id_to_label = <<>>
    /\ out_classes = 0
    /\ logits = <<>>
    /\ prediction = NoPrediction

SpecPredict == InitPredict /\ [][PredNext]_vars

\* The three stages in sequence: the Trainer is given the train.json the Data
\* Preparer wrote, the Predictor a bundle the Trainer wrote
Init ==
    /\ task_labels \in LabelLists
    /\ raw_data \in SeqsUpTo(RawRecords, MaxRecords)
    /\ input_exists = TRUE
    /\ config \in [seed : {42}, train_split : {[num |-> 4, den |-> 5], [num |-> 1, den |-> 1]},
                   epochs : {1}]
    /\ run = 1
    /\ pc = "start"
    /\ processed_data = <<>>
    /\ split = NoSplit
    /\ rng = 1
    /\ out_dir = [r \in Runs |-> EmptyDir]
    /\ TrainOff
    /\ PredOff

\* train.py --data_path <output_dir>/train.json, once both runs of the Data Preparer ended
TrainerStart ==
    /\ tpc = "off"
    /\ run = 2
    /\ pc = "raised"
    /\ out_dir[run].train.written
    /\ Len(out_dir[run].train.content) >= 2
    /\ LET c == out_dir[run].train.content
       IN  data_file' = File([i \in 1..Len(c) |->
                                 [text |-> c[i].text, label |-> IntV(c[i].label)]])
    /\ tpc' = "start"
    /\ UNCHANGED <<unique_labels, label_to_id, label_ids, num_classes, epoch, model_state,
                   best_f1, f1_log, bundles, saves>>
    /\ UNCHANGED <<prepVars, predVars>>

\* predict.py --model_path <output-dir>/best_model or final_model, after training
PredictorStart ==
    /\ ppc = "off"
    /\ tpc = "done"
    /\ ppc' = "start"
    /\ UNCHANGED <<model_path, id_to_label, out_classes, logits, prediction>>
    /\ UNCHANGED <<prepVars, trainVars>>

Next == PrepNext \/ TrainerStart \/ TrainNext \/ PredictorStart \/ PredNext

Spec == Init /\ [][Next]_vars

-----------------------------------------------------------------------------
(* Properties of the Data Preparer, checked under SpecPrepare *)

Written(r) == out_dir[r].train.written /\ out_dir[r].test.written

\* The records lines 57-73 build from the input, in input order
Expected == [i \in 1..Len(raw_data) |->
                [text  |-> clean_text(raw_data[i].query),
                 label |-> LabelLookup(TaskType(raw_data[i]), task_labels).idx]]

Count(seq, e) == Cardinality({i \in DOMAIN seq : seq[i] = e})

SameBag(a, b) == \A e \in Range(a) \cup Range(b) : Count(a, e) = Count(b, e)

Unresolved(item) == TaskType(item) \notin Range(task_labels)

HasOther == "other" \in Range(task_labels)

\* C1: whenever a run has written both files, len(train.json) + len(test.json)
\* is the number of input records, train.json followed by test.json is the
\* shuffled list, and that list holds exactly the processed input records:
\* nothing dropped, nothing duplicated.
C1_SplitKeepsEveryRecord ==
    \A r \in Runs :
        Written(r) =>
            LET tr == out_dir[r].train.content
                te == out_dir[r].test.content
            IN  /\ Len(tr) + Len(te) = Len(raw_data)
                /\ (r = run => tr \o te = processed_data)
                /\ SameBag(tr \o te, Expected)

C1_Witness ==
    /\ Written(1)
    /\ Len(raw_data) = MaxRecords
    /\ Len(out_dir[1].train.content) >= 1
    /\ Len(out_dir[1].test.content) >= 1
    /\ out_dir[1].train.content \o out_dir[1].test.content # Expected

\* C2: every record in a written train.json or test.json has a label l with
\* 0 <= l < len(task_labels).
C2_LabelsAreValidIndices ==
    \A r \in Runs :
        /\ out_dir[r].train.written =>
               \A i \in 1..Len(out_dir[r].train.content) :
                   out_dir[r].train.content[i].label \in 0..(Len(task_labels) - 1)
        /\ out_dir[r].test.written =>
               \A i \in 1..Len(out_dir[r].test.content) :
                   out_dir[r].test.content[i].label \in 0..(Len(task_labels) - 1)

C2_Witness ==
    /\ Written(1)
    /\ HasOther
    /\ \E i \in 1..Len(raw_data) : raw_data[i].has_task /\ Unresolved(raw_data[i])
    /\ \E i \in 1..Len(raw_data) : ~Unresolved(raw_data[i])

C4_SameSeedSameFiles ==
    /\ out_dir[2].train.written =>
           out_dir[1].train.written /\ out_dir[2].train.content = out_dir[1].train.content
    /\ out_dir[2].test.written =>
           out_dir[1].test.written /\ out_dir[2].test.content = out_dir[1].test.content

C4_Witness ==
    /\ Written(1)
    /\ Written(2)
    /\ Len(raw_data) >= 2
    /\ out_dir[2].train.content \o out_dir[2].test.content # Expected

\* C10: when the final logging statement is reached, and after it has raised,
\* both files of the run are written in full; a run that gets that far ends
\* with the NameError, so a normal return happens only on an early abort
\* (missing input, unresolved label), with neither file written.
C10_FilesCompleteBeforeLogRaises ==
    /\ pc \in {"log", "raised"} =>
           /\ out_dir[run].train = File(split.train_data)
           /\ out_dir[run].test = File(split.test_data)
           /\ split.train_data \o split.test_data = processed_data
           /\ Len(processed_data) = Len(raw_data)
    /\ pc = "returned" =>
           /\ ~out_dir[run].train.written
           /\ ~out_dir[run].test.written
           /\ \/ ~input_exists
              \/ ~HasOther /\ \E k \in 1..Len(raw_data) : Unresolved(raw_data[k])

C10_Witness ==
    /\ pc = "raised"
    /\ Len(out_dir[run].train.content) >= 1
    /\ Len(out_dir[run].test.content) >= 1

-----------------------------------------------------------------------------
(* Properties of the Trainer, checked under SpecTrain *)

MaxOf(S) == CHOOSE m \in S : \A x \in S : x <= m

\* The best F1 the loop had seen before epoch i (1-based); 0.0 before any
BestBefore(i) == MaxOf({0} \cup {f1_log[j] : j \in 1..(i - 1)})

ImprovedAt(i) == f1_log[i] > BestBefore(i)

WrittenBundles == {b \in {bundles.best_model, bundles.final_model} : b.exists}

\* C6: best_model is saved in exactly the epochs whose F1 is strictly greater
\* than the best seen before (0.0 at first); best_f1 is the maximum of 0.0 and
\* the F1 values seen; best_model, when it exists, holds the weights of the
\* earliest epoch that reached that maximum; final_model is saved exactly
\* once, last, with the weights after the last epoch.
C6_BestIsEarliestMaxFinalOnce ==
    /\ best_f1 = BestBefore(Len(f1_log) + 1)
    /\ Len(f1_log) = epoch
    /\ {saves[k].at : k \in {n \in 1..Len(saves) : saves[n].dir = "best_model"}}
           = {i \in 1..Len(f1_log) : ImprovedAt(i)}
    /\ Cardinality({n \in 1..Len(saves) : saves[n].dir = "best_model"})
           = Cardinality({i \in 1..Len(f1_log) : ImprovedAt(i)})
    /\ bundles.best_model.exists <=> \E i \in 1..Len(f1_log) : ImprovedAt(i)
    /\ bundles.best_model.exists =>
           /\ f1_log[bundles.best_model.weights] = best_f1
           /\ \A j \in 1..(bundles.best_model.weights - 1) : f1_log[j] < best_f1
    /\ Cardinality({n \in 1..Len(saves) : saves[n].dir = "final_model"})
           = IF tpc = "done" THEN 1 ELSE 0
    /\ bundles.final_model.exists <=> tpc = "done"
    /\ tpc = "done" =>
           /\ saves[Len(saves)].dir = "final_model"
           /\ epoch = config.epochs
           /\ bundles.final_model.weights = config.epochs

C6_Witness ==
    /\ tpc = "done"
    /\ Len(f1_log) = MaxEpochs
    /\ f1_log[1] > 0
    /\ f1_log[MaxEpochs] = f1_log[1]
    /\ bundles.best_model.weights = 1
    /\ bundles.final_model.weights = MaxEpochs

\* C7: in every bundle save_model wrote, each class id 0 .. num_labels-1 of the
\* output layer is a key of the bundle's id_to_label as the file reads back.
C7_EveryClassIdHasALabel ==
    \A b \in WrittenBundles :
        \A c \in 0..(b.num_labels - 1) :
            PyStr(c) \in DOMAIN JsonLoadDict(b.label_mapping.id_to_label)

C7_Witness ==
    /\ bundles.best_model.exists
    /\ bundles.final_model.exists
    /\ bundles.final_model.num_labels >= 2
    /\ \E i, j \in 1..Len(unique_labels) :
           unique_labels[i].kind = "int" /\ unique_labels[j].kind = "str"

\* C5: in every label_mapping.json written, read back with string keys,
\* id_to_label[label_to_id[L]] = L for every label L of label_to_id and
\* label_to_id[id_to_label[I]] = I for every id I of id_to_label (an id and
\* its decimal string taken as the same id).
C5_MappingsAreMutualInverses ==
    \A b \in WrittenBundles :
        LET l2i == JsonLoadDict(b.label_mapping.label_to_id)
            i2l == JsonLoadDict(b.label_mapping.id_to_label)
        IN  /\ \A L \in DOMAIN l2i :
                   /\ PyStr(l2i[L].val) \in DOMAIN i2l
                   /\ i2l[PyStr(l2i[L].val)] = StrV(L)
            /\ \A I \in DOMAIN i2l :
                   /\ i2l[I].kind = "str"
                   /\ i2l[I].str \in DOMAIN l2i
                   /\ l2i[i2l[I].str] = IntV(PyInt(I))

-----------------------------------------------------------------------------
(* Property of the Predictor, checked under SpecPredict *)

-----------------------------------------------------------------------------
(* Property of the three stages together, checked under Spec *)

\* C8: the class id of a label is the same in all three stages: the index the
\* Data Preparer wrote for it is the id the Trainer trains on for it, and the
\* id the Predictor maps back to it.
C8_OneClassIdInAllStages ==
    /\ tpc \in {"epochs", "done"} =>
           \A i \in 1..Len(label_ids) : label_ids[i] = data_file.content[i].label.val
    /\ ppc = "loaded" =>
           \A c \in DOMAIN id_to_label : id_to_label[c] = IntV(c)

====
